---- MODULE Spec2Model ----
(***************************************************************************)
(* Model of the CapCut-style timeline of ExpoVideoDemo                     *)
(* (src/components/CapCutTimeline.tsx): the process-wide ThumbnailCache,   *)
(* the bounded-concurrency thumbnail generation runs of the timeline's     *)
(* generation effect, and the playback-position state written by the       *)
(* engine's timeUpdate listener (React Native thread) and by the tap and   *)
(* pan gesture worklets (UI thread).                                       *)
(*                                                                         *)
(* Real numbers (durations, times, progress) are exact rationals <<n, d>>  *)
(* in lowest terms with d > 0.  A thumbnail uri is the pair                *)
(* <<videoUri, timeMs>> the extraction was called with; null, undefined    *)
(* and the empty string are the empty tuple <<>>.                          *)
(***************************************************************************)
EXTENDS Integers, Sequences, FiniteSets, TLC

VARIABLES
    mounted,              \* isMountedRef.current
    duration,             \* React state `duration` (seconds, rational)
    videoUri,             \* prop `videoUri`
    effectDeps,           \* [duration, videoUri] the generation effect last ran with
    thumbnails,           \* React state `thumbnails`
    isLoadingThumbnails,  \* React state `isLoadingThumbnails`
    abortControllerRef,   \* abortControllerRef.current: index into gens, 0 = null
    gens,                 \* one record per run of the generation effect body
    cache,                \* ThumbnailCache.cache: a Map, as its entries in insertion order
    insertOrder,          \* history: keys of the Map by the time of their Map insertion
    cacheOp,              \* history: the last operation on the cache and what it found
    isDragging,           \* shared value isDragging
    progress,             \* shared value progress
    displayTime,          \* React state `displayTime`
    playerCurrentTime,    \* player.currentTime
    rnQueue,              \* calls scheduled from worklets onto the RN thread
    listener,             \* position of the timeUpdate listener and its payload
    gesture               \* last gesture callback and its event.x

genVars == <<mounted, videoUri, effectDeps, thumbnails, isLoadingThumbnails,
             abortControllerRef, gens>>
cacheVars == <<cache, insertOrder, cacheOp>>
posVars == <<isDragging, progress, displayTime, playerCurrentTime, rnQueue,
             listener, gesture>>
vars == <<duration, genVars, cacheVars, posVars>>

----------------------------------------------------------------------------
(* Bounds and program constants *)

\* THUMBNAIL_COUNT is 6 or 10 in the source; scaled down
THUMBNAIL_COUNT == 3
\* the low-end-device value of the source
MAX_CONCURRENT_THUMBNAILS == 2
\* ThumbnailCache.maxSize
maxSize == 5
\* SCREEN_WIDTH - 2 * TIMELINE_PADDING, in pixels; scaled down
TIMELINE_WIDTH == 2
\* number of runs of the generation effect body in one behaviour
MaxGens == 2
\* number of calls waiting on the RN thread
MaxQueue == 2
\* raw pointer coordinates reach this far beyond either end of the timeline
XMargin == 1
\* the cache-only specification uses maxSize + KeyExtra distinct keys
KeyExtra == 1

\* videoSource of src/app/video.tsx, the only videoUri the timeline is rendered with
videoSource == "Sintel.mp4"
NoUri == <<>>

----------------------------------------------------------------------------
(* Exact rational arithmetic for the source's floating-point expressions *)

RECURSIVE GCD(_, _)
GCD(a, b) == IF b = 0 THEN a ELSE GCD(b, a % b)

Abs(n) == IF n < 0 THEN -n ELSE n

Q(n, d) ==
    LET g == GCD(Abs(n), Abs(d))
        s == IF d < 0 THEN -1 ELSE 1
    IN  <<(s * n) \div g, (s * d) \div g>>

QInt(n) == <<n, 1>>
QMul(a, b) == Q(a[1] * b[1], a[2] * b[2])
QDiv(a, b) == Q(a[1] * b[2], a[2] * b[1])
QLe(a, b) == a[1] * b[2] <= b[1] * a[2]
QLt(a, b) == a[1] * b[2] < b[1] * a[2]

\* Math.round: the nearest integer, halves rounded up
MathRound(a) == (2 * a[1] + a[2]) \div (2 * a[2])

\* Math.max(0, Math.min(x, TIMELINE_WIDTH))
Clamp_NoLower(x) == IF x < TIMELINE_WIDTH THEN x ELSE TIMELINE_WIDTH

Clamp_NoUpper(x) == IF 0 > x THEN 0 ELSE x

Clamp(x) ==
    LET m == IF x < TIMELINE_WIDTH THEN x ELSE TIMELINE_WIDTH
    IN  IF 0 > m THEN 0 ELSE m

Zero == QInt(0)
PlayerDurations == {Q(3, 2), QInt(2)}
EngineTimes == {Zero, QInt(1)}
RawXs == (0 - XMargin)..(TIMELINE_WIDTH + XMargin)

----------------------------------------------------------------------------
(* ThumbnailCache *)

\* `${videoUri}_${Math.round(duration)}`
CacheKey(uri, d) == <<uri, MathRound(d)>>

Keys(c) == {c[i].key : i \in DOMAIN c}

HasKey(c, k) == k \in Keys(c)

IndexOfKey(c, k) == CHOOSE i \in DOMAIN c : c[i].key = k

\* ThumbnailCache.get / Map.get: the value, or undefined
CacheGet(c, k) == IF HasKey(c, k) THEN c[IndexOfKey(c, k)].value ELSE <<>>

\* the Map after ThumbnailCache.get: a lookup does not reorder the entries
MapAfterGet_LRU(c, k) ==
    IF HasKey(c, k)
    THEN Append(SelectSeq(c, LAMBDA e : e.key # k), c[IndexOfKey(c, k)])
    ELSE c

MapAfterGet(c, k) == c

\* Map.delete
MapDelete(c, k) == SelectSeq(c, LAMBDA e : e.key # k)

\* Map.set: an existing key keeps its position, a new key goes last
MapSet(c, k, v) ==
    IF HasKey(c, k)
    THEN [i \in DOMAIN c |-> IF c[i].key = k THEN [key |-> k, value |-> v] ELSE c[i]]
    ELSE Append(c, [key |-> k, value |-> v])

\* the eviction step of ThumbnailCache.set
Evict_Newest(c) ==
    IF Len(c) >= maxSize
    THEN LET lastKey == c[Len(c)].key
         IN  IF lastKey # <<>> THEN SelectSeq(c, LAMBDA e : e.key # lastKey) ELSE c
    ELSE c

Evict_OffByOne(c) ==
    IF Len(c) > maxSize
    THEN LET firstKey == c[1].key
         IN  IF firstKey # <<>> THEN SelectSeq(c, LAMBDA e : e.key # firstKey) ELSE c
    ELSE c

Evict(c) ==
    IF Len(c) >= maxSize
    THEN LET firstKey == c[1].key
         IN  IF firstKey # <<>> THEN MapDelete(c, firstKey) ELSE c
    ELSE c

\* ThumbnailCache.set
CacheSet(c, k, v) == MapSet(Evict(c), k, v)

\* ThumbnailCache.clear
CacheClear(c) == <<>>

\* history of Map insertions made by ThumbnailCache.set(k, _) on cache c:
\* the evicted keys leave, a key that is not in the Map after the eviction is inserted
InsertOrderAfterSet(c, order, k) ==
    LET kept == Keys(Evict(c))
        rest == SelectSeq(order, LAMBDA x : x \in kept)
    IN  IF k \in kept THEN rest ELSE Append(rest, k)

----------------------------------------------------------------------------
(* Thumbnails *)

Slots == 0..(THUMBNAIL_COUNT - 1)

\* timeMs = (duration / THUMBNAIL_COUNT) * i * 1000
TimeMs(d, i) == QMul(QMul(QDiv(d, QInt(THUMBNAIL_COUNT)), QInt(i)), QInt(1000))

\* result.uri of getThumbnailAsync(uri, {time: timeMs})
ThumbUri(uri, d, i) == <<uri, TimeMs(d, i)>>

\* Array(THUMBNAIL_COUNT).fill(null)
NullThumbnails == [p \in 1..THUMBNAIL_COUNT |-> NoUri]

----------------------------------------------------------------------------
(* Initial state: the timeline has mounted, the engine has reported nothing *)

NoOp == [op |-> "none", newKey |-> FALSE, full |-> FALSE]

\* what a get or set of key k finds in cache c
OpRecord(name, c, k) == [op |-> name, newKey |-> ~HasKey(c, k), full |-> Len(c) >= maxSize]

Init ==
    /\ mounted = TRUE
    /\ duration = Zero
    /\ videoUri = videoSource
    /\ effectDeps = <<duration, videoUri>>
    /\ thumbnails = NullThumbnails
    /\ isLoadingThumbnails = TRUE
    /\ abortControllerRef = 0
    /\ gens = <<>>
    /\ cache = <<>>
    /\ insertOrder = <<>>
    /\ cacheOp = NoOp
    /\ isDragging = FALSE
    /\ progress = Zero
    /\ displayTime = Zero
    /\ playerCurrentTime = Zero
    /\ rnQueue = <<>>
    /\ listener = [pc |-> "idle", currentTime |-> Zero]
    /\ gesture = [kind |-> "none", x |-> 0]

----------------------------------------------------------------------------
(* generateThumbnailsWithLimit and the generation effect *)

Range(f) == {f[x] : x \in DOMAIN f}

\* controller.abort() on the controller of effect run n (n = 0: the ref is null).
\* The only read of `results` is behind !controller.signal.aborted (line 292)
\* and a signal never un-aborts, so the results of an aborted run are dead:
\* the model forgets them instead of carrying every order they can arrive in.
Abort_Noop(gs, n) == gs

Abort(gs, n) ==
    [j \in DOMAIN gs |->
        IF j = n THEN [gs[j] EXCEPT !.aborted = TRUE, !.results = <<>>] ELSE gs[j]]

\* The for loop of generateThumbnailsWithLimit from task g.next on, up to its
\* next suspension: a task of an aborted run returns null at once and its
\* callback pushes null in the same turn; any other task calls
\* getThumbnailAsync and joins `executing`; the loop waits on Promise.race
\* when executing.length >= limit, and on Promise.all after the last task.
RECURSIVE RunLoop_WaitsLate(_)
RunLoop_WaitsLate(g) ==
    IF g.next = THUMBNAIL_COUNT
    THEN [g EXCEPT !.pc = IF g.executing = {} THEN "done" ELSE "all"]
    ELSE IF g.aborted
         THEN RunLoop_WaitsLate([g EXCEPT !.next = g.next + 1])
         ELSE LET g1 == [g EXCEPT !.next = g.next + 1,
                                  !.executing = g.executing \cup {g.next}]
              IN  IF Cardinality(g1.executing) > MAX_CONCURRENT_THUMBNAILS
                  THEN [g1 EXCEPT !.pc = "race"]
                  ELSE RunLoop_WaitsLate(g1)

RECURSIVE RunLoop(_)
RunLoop(g) ==
    IF g.next = THUMBNAIL_COUNT
    THEN [g EXCEPT !.pc = IF g.executing = {} THEN "done" ELSE "all"]
    ELSE IF g.aborted
         THEN RunLoop([g EXCEPT !.next = g.next + 1])
         ELSE LET g1 == [g EXCEPT !.next = g.next + 1,
                                  !.executing = g.executing \cup {g.next}]
              IN  IF Cardinality(g1.executing) >= MAX_CONCURRENT_THUMBNAILS
                  THEN [g1 EXCEPT !.pc = "race"]
                  ELSE RunLoop(g1)

\* the callback of task i: results.push(result); executing.splice(indexOf(p), 1);
\* then whatever was waiting on the promise runs on
AfterTask_PushesTwice(g, i, result) ==
    LET g1 == [g EXCEPT !.results = IF g.aborted THEN <<>>
                                    ELSE Append(Append(g.results, result), result),
                        !.executing = g.executing \ {i}]
    IN  IF g.pc = "race" THEN RunLoop(g1)
        ELSE IF g1.executing = {} THEN [g1 EXCEPT !.pc = "done"] ELSE g1

AfterTask_AllNeverResolves(g, i, result) ==
    LET g1 == [g EXCEPT !.results = IF g.aborted THEN <<>> ELSE Append(g.results, result),
                        !.executing = g.executing \ {i}]
    IN  IF g.pc = "race" THEN RunLoop(g1) ELSE g1

AfterTask_WaitsForBatch(g, i, result) ==
    LET g1 == [g EXCEPT !.results = IF g.aborted THEN <<>> ELSE Append(g.results, result),
                        !.executing = g.executing \ {i}]
    IN  IF g.pc = "race"
        THEN IF g1.executing = {} THEN RunLoop(g1) ELSE g1
        ELSE IF g1.executing = {} THEN [g1 EXCEPT !.pc = "done"] ELSE g1

AfterTask(g, i, result) ==
    LET g1 == [g EXCEPT !.results = IF g.aborted THEN <<>> ELSE Append(g.results, result),
                        !.executing = g.executing \ {i}]
    IN  IF g.pc = "race" THEN RunLoop(g1)
        ELSE IF g1.executing = {} THEN [g1 EXCEPT !.pc = "done"] ELSE g1

\* orderedResults: new Array(THUMBNAIL_COUNT).fill(null), then
\* results.forEach((uri, idx) => { if (uri) orderedResults[idx] = uri }).
\* An assignment at an index past the end makes a JS array longer.
OrderedResults(results) ==
    LET written == {p \in DOMAIN results : results[p] # NoUri}
        len     == IF \E p \in written : p > THUMBNAIL_COUNT
                   THEN CHOOSE p \in written : \A q \in written : q <= p
                   ELSE THUMBNAIL_COUNT
    IN  [p \in 1..len |-> IF p \in written THEN results[p] ELSE NoUri]

\* orderedResults.some((r) => r !== null)
SomeNonNull_Always(seq) == TRUE

SomeNonNull(seq) == \E p \in DOMAIN seq : seq[p] # NoUri

\* the run may write its results: !controller.signal.aborted && isMountedRef.current
MayWrite_IgnoresAbort(g, isMounted) == isMounted

MayWrite(g, isMounted) == ~g.aborted /\ isMounted

\* cached && cached.length === THUMBNAIL_COUNT
CacheHit_Never(cached) == FALSE

CacheHit(cached) == cached # <<>> /\ Len(cached) = THUMBNAIL_COUNT

NewGen(uri, d) ==
    [uri |-> uri, d |-> d, key |-> CacheKey(uri, d), aborted |-> FALSE,
     pc |-> "start", next |-> 0, executing |-> {}, results |-> <<>>, rank |-> 0]

\* The generation effect for the render with duration d and videoUri uri:
\* the cleanup of its previous run (controller.abort()), then its body.
\* React runs it after every render in which duration or videoUri changed.
GenerationEffect(d, uri) ==
    /\ effectDeps' = <<d, uri>>
    /\ LET cleaned == Abort(gens, abortControllerRef)
           cacheKey == CacheKey(uri, d)
           cached == CacheGet(cache, cacheKey)
           hit == CacheHit(cached)
           g == NewGen(uri, d)
       IN  IF ~QLt(Zero, d) \/ uri = ""
           THEN /\ gens' = cleaned
                /\ UNCHANGED <<thumbnails, isLoadingThumbnails, abortControllerRef, cacheVars>>
           ELSE /\ abortControllerRef' = Len(gens) + 1
                /\ cache' = MapAfterGet(cache, cacheKey)
                /\ cacheOp' = OpRecord("get", cache, cacheKey)
                /\ UNCHANGED insertOrder
                /\ IF hit
                   THEN /\ thumbnails' = cached
                        /\ isLoadingThumbnails' = FALSE
                        /\ gens' = Append(cleaned, [g EXCEPT !.pc = "cached"])
                   ELSE /\ isLoadingThumbnails' = TRUE
                        /\ gens' = Append(cleaned, RunLoop(g))
                        /\ UNCHANGED thumbnails

\* statusChange listener: if (player.duration > 0) setDuration(player.duration),
\* the render it causes, and the generation effect of that render
StatusChange(d) ==
    /\ mounted
    /\ listener.pc = "idle"
    /\ Len(gens) < MaxGens
    /\ QLt(Zero, d)
    /\ d # duration
    /\ duration' = d
    /\ GenerationEffect(d, videoUri)
    /\ UNCHANGED <<mounted, videoUri, posVars>>

\* getThumbnailAsync of task i of run n settles (ok: with an image, else it
\* throws and the task returns null); the task's callback runs, and with it
\* everything that was waiting: the rest of the loop and, once the last
\* task is through, the rest of generate()
TaskSettles(n, i, ok) ==
    /\ n \in DOMAIN gens
    /\ i \in gens[n].executing
    /\ LET g == gens[n]
           result == IF ok THEN ThumbUri(g.uri, g.d, i) ELSE NoUri
           g1 == AfterTask(g, i, result)
           \* history: the how-manieth run to get through this one is
           g2 == IF g1.pc = "done"
                 THEN [g1 EXCEPT !.rank = 1 + Cardinality({j \in DOMAIN gens : gens[j].pc = "done"})]
                 ELSE g1
           orderedResults == OrderedResults(g2.results)
       IN  /\ gens' = [gens EXCEPT ![n] = g2]
           /\ IF g2.pc = "done" /\ MayWrite(g2, mounted)
              THEN /\ thumbnails' = orderedResults
                   /\ isLoadingThumbnails' = FALSE
                   /\ IF SomeNonNull(orderedResults)
                      THEN /\ cache' = CacheSet(cache, g2.key, orderedResults)
                           /\ insertOrder' = InsertOrderAfterSet(cache, insertOrder, g2.key)
                           /\ cacheOp' = OpRecord("set", cache, g2.key)
                      ELSE UNCHANGED cacheVars
              ELSE UNCHANGED <<thumbnails, isLoadingThumbnails, cacheVars>>
    /\ UNCHANGED <<duration, mounted, videoUri, effectDeps, abortControllerRef, posVars>>

\* unmount: the cleanups of the mount effect and of the generation effect
Unmount ==
    /\ mounted
    /\ mounted' = FALSE
    /\ gens' = Abort(gens, abortControllerRef)
    /\ UNCHANGED <<duration, videoUri, effectDeps, thumbnails, isLoadingThumbnails,
                   abortControllerRef, cacheVars, posVars>>

\* the timeline's thumbnail generation
NextGen ==
    \/ \E d \in PlayerDurations : StatusChange(d)
    \/ \E n \in 1..MaxGens : \E i \in Slots : \E ok \in BOOLEAN : TaskSettles(n, i, ok)
    \/ Unmount

SpecGen == Init /\ [][NextGen]_vars

\* durations of the player that round to different values (1 and 2), so that
\* a new duration is a new cache key
RekeyingDurations == {QInt(1), QInt(2)}

\* the thumbnail generation when the duration reported by the player moves
\* from one cache key to another
NextGenRekey ==
    \/ \E d \in RekeyingDurations : StatusChange(d)
    \/ \E n \in 1..MaxGens : \E i \in Slots : \E ok \in BOOLEAN : TaskSettles(n, i, ok)
    \/ Unmount

SpecGenRekey == Init /\ [][NextGenRekey]_vars

\* the same, with every getThumbnailAsync call that is in flight eventually
\* resolving or rejecting (the native module answers every call)
SpecGenFair ==
    /\ SpecGen
    /\ \A n \in 1..MaxGens : \A i \in Slots :
            WF_vars(\E ok \in BOOLEAN : TaskSettles(n, i, ok))

----------------------------------------------------------------------------
(* Playback position: the timeUpdate listener on the RN thread, the gesture
   worklets on the UI thread, and the calls the worklets schedule onto the
   RN thread with scheduleOnRN *)

\* x / TIMELINE_WIDTH for the clamped x
NewProgress(x) == Q(Clamp(x), TIMELINE_WIDTH)

\* newProgress * duration
NewTime(x, d) == QMul(NewProgress(x), d)

SeekTo(t) == [fn |-> "seekTo", time |-> t]
UpdateDisplayTime(t) == [fn |-> "updateDisplayTime", time |-> t]

\* payload.currentTime / duration
ListenerProgress_NotDivided(ct, d) == ct

ListenerProgress(ct, d) == QDiv(ct, d)

\* the calls panGesture.onUpdate schedules onto the RN thread
PanUpdateCalls_AlsoSeeks(t) == <<SeekTo(t), UpdateDisplayTime(t)>>

PanUpdateCalls(t) == <<UpdateDisplayTime(t)>>

GestureIdle == gesture.kind \in {"none", "tapEnd", "panEnd"}

\* The engine's clock is at ct and it emits timeUpdate; the listener reads
\* isDragging.value and duration.  The worklets run on another thread, so
\* the listener's write is a step of its own.
TimeUpdate(ct) ==
    /\ mounted
    /\ listener.pc = "idle"
    /\ QLe(ct, duration) \/ duration = Zero
    /\ playerCurrentTime' = ct
    /\ listener' = IF ~isDragging /\ QLt(Zero, duration)
                   THEN [pc |-> "write", currentTime |-> ct]
                   ELSE listener
    /\ UNCHANGED <<duration, genVars, cacheVars, isDragging, progress, displayTime,
                   rnQueue, gesture>>

\* progress.value = payload.currentTime / duration;
\* scheduleOnRN(updateDisplayTime, payload.currentTime), which on the RN
\* thread itself runs as soon as the listener returns
TimeUpdateWrite ==
    /\ listener.pc = "write"
    /\ progress' = ListenerProgress(listener.currentTime, duration)
    /\ displayTime' = listener.currentTime
    /\ listener' = [pc |-> "idle", currentTime |-> Zero]
    /\ UNCHANGED <<duration, genVars, cacheVars, isDragging, playerCurrentTime,
                   rnQueue, gesture>>

\* the RN thread runs the next call scheduled by a worklet: seekTo sets
\* player.currentTime, updateDisplayTime sets displayTime
RunOnRN ==
    /\ listener.pc = "idle"
    /\ rnQueue # <<>>
    /\ rnQueue' = Tail(rnQueue)
    /\ IF Head(rnQueue).fn = "seekTo"
       THEN playerCurrentTime' = Head(rnQueue).time /\ UNCHANGED displayTime
       ELSE displayTime' = Head(rnQueue).time /\ UNCHANGED playerCurrentTime
    /\ UNCHANGED <<duration, genVars, cacheVars, isDragging, progress, listener, gesture>>

\* tapGesture.onStart: only the playhead's scale animates
TapStart ==
    /\ mounted
    /\ GestureIdle
    /\ Len(rnQueue) + 2 <= MaxQueue
    /\ gesture' = [kind |-> "tapStart", x |-> 0]
    /\ UNCHANGED <<duration, genVars, cacheVars, isDragging, progress, displayTime,
                   playerCurrentTime, rnQueue, listener>>

\* tapGesture.onEnd
TapEnd(x) ==
    /\ gesture.kind = "tapStart"
    /\ gesture' = [kind |-> "tapEnd", x |-> x]
    /\ progress' = NewProgress(x)
    /\ rnQueue' = rnQueue \o <<SeekTo(NewTime(x, duration)),
                               UpdateDisplayTime(NewTime(x, duration))>>
    /\ UNCHANGED <<duration, genVars, cacheVars, isDragging, displayTime,
                   playerCurrentTime, listener>>

\* panGesture.onStart
PanStart ==
    /\ mounted
    /\ GestureIdle
    /\ Len(rnQueue) + 1 <= MaxQueue
    /\ gesture' = [kind |-> "panStart", x |-> 0]
    /\ isDragging' = TRUE
    /\ UNCHANGED <<duration, genVars, cacheVars, progress, displayTime,
                   playerCurrentTime, rnQueue, listener>>

\* panGesture.onUpdate
PanUpdate(x) ==
    /\ gesture.kind \in {"panStart", "panUpdate"}
    /\ Len(rnQueue) + 2 <= MaxQueue
    /\ gesture' = [kind |-> "panUpdate", x |-> x]
    /\ progress' = NewProgress(x)
    /\ rnQueue' = rnQueue \o PanUpdateCalls(NewTime(x, duration))
    /\ UNCHANGED <<duration, genVars, cacheVars, isDragging, displayTime,
                   playerCurrentTime, listener>>

\* panGesture.onEnd
PanEnd(x) ==
    /\ gesture.kind \in {"panStart", "panUpdate"}
    /\ gesture' = [kind |-> "panEnd", x |-> x]
    /\ rnQueue' = Append(rnQueue, SeekTo(NewTime(x, duration)))
    /\ isDragging' = FALSE
    /\ UNCHANGED <<duration, genVars, cacheVars, progress, displayTime,
                   playerCurrentTime, listener>>

NextPos ==
    \/ \E d \in PlayerDurations : StatusChange(d)
    \/ \E ct \in EngineTimes : TimeUpdate(ct)
    \/ TimeUpdateWrite
    \/ RunOnRN
    \/ TapStart
    \/ \E x \in RawXs : TapEnd(x)
    \/ PanStart
    \/ \E x \in RawXs : PanUpdate(x)
    \/ \E x \in RawXs : PanEnd(x)

SpecPos == Init /\ [][NextPos]_vars

----------------------------------------------------------------------------
(* The cache driven directly: any sequence of get, set and clear *)

TestKeys == {CacheKey(videoSource, QInt(n)) : n \in 1..(maxSize + KeyExtra)}

\* the sequences a run can store under key k: all slots present, or slot 1 absent
TestSeqs(k) ==
    LET full == [p \in 1..THUMBNAIL_COUNT |-> ThumbUri(k[1], QInt(k[2]), p - 1)]
    IN  {full, [full EXCEPT ![2] = NoUri]}

DoGet(k) ==
    /\ cache' = MapAfterGet(cache, k)
    /\ cacheOp' = OpRecord("get", cache, k)
    /\ UNCHANGED insertOrder
    /\ UNCHANGED <<duration, genVars, posVars>>

DoSet(k, v) ==
    /\ cache' = CacheSet(cache, k, v)
    /\ insertOrder' = InsertOrderAfterSet(cache, insertOrder, k)
    /\ cacheOp' = OpRecord("set", cache, k)
    /\ UNCHANGED <<duration, genVars, posVars>>

DoClear ==
    /\ cache' = CacheClear(cache)
    /\ insertOrder' = <<>>
    /\ cacheOp' = [NoOp EXCEPT !.op = "clear"]
    /\ UNCHANGED <<duration, genVars, posVars>>

NextCache ==
    \/ \E k \in TestKeys : DoGet(k)
    \/ \E k \in TestKeys : \E v \in TestSeqs(k) : DoSet(k, v)
    \/ DoClear

SpecCache == Init /\ [][NextCache]_vars

----------------------------------------------------------------------------
(* Claims about the cache *)

\* C4: after any sequence of get, set and clear the cache holds at most
\* maxSize (5) entries
C4_CacheAtMostMaxSize == Len(cache) <= maxSize

\* a set found the cache full, evicted, and left it full
C4_Witness ==
    /\ cacheOp.op = "set" /\ cacheOp.full
    /\ Len(cache) = maxSize

----------------------------------------------------------------------------
(* Claims about generation runs *)

\* run n gets through generate() in this step
Finishes(n) == n \in DOMAIN gens /\ gens[n].pc # "done" /\ gens'[n].pc = "done"

\* the sequence the claim expects of run g: slot i holds what the extraction
\* for sample index i, timestamp (duration / N) * i, returned
ByOriginalIndex(g) ==
    [p \in 1..THUMBNAIL_COUNT |->
        IF ThumbUri(g.uri, g.d, p - 1) \in Range(g.results)
        THEN ThumbUri(g.uri, g.d, p - 1)
        ELSE NoUri]

\* C1: the sequence a non-cancelled run writes to screen state holds in slot i
\* the result (image or absent) of the extraction issued for sample index i,
\* whatever the completion order and whichever calls fail
C1_SlotsByOriginalIndex ==
    \A n \in DOMAIN gens :
        (n = abortControllerRef /\ gens[n].pc = "done" /\ gens[n].rank > 0 /\ MayWrite(gens[n], mounted))
            => thumbnails = ByOriginalIndex(gens[n])

\* C2: a step of a cancelled run (its extraction calls resolving, its
\* generate() running on) never changes the screen's thumbnails or the cache
C2_CancelledRunNeverWrites ==
    [][ \A n \in DOMAIN gens :
            (gens[n].aborted /\ gens'[n] # gens[n])
                => (thumbnails' = thumbnails /\ cache' = cache) ]_vars

\* run 1 was superseded by run 2, run 2 completed first and wrote its images
\* to the screen and the cache, and run 1's last calls resolved after that
C2_Witness ==
    /\ Len(gens) >= 2
    /\ gens[1].aborted /\ gens[1].rank = 2
    /\ ~gens[2].aborted /\ gens[2].rank = 1
    /\ SomeNonNull(thumbnails)
    /\ CacheGet(cache, gens[2].key) = thumbnails

\* C10: when a non-cancelled run completes, the sequence it wrote to the screen
\* is in the cache under (videoUri, round(duration)) iff one of its slots is
\* non-absent; an all-absent run leaves the cache as it was, without that key
C10_CachedIffSomeSlotPresent ==
    [][ \A n \in DOMAIN gens :
            (Finishes(n) /\ MayWrite(gens'[n], mounted))
                => IF \E p \in DOMAIN gens'[n].results : gens'[n].results[p] # NoUri
                   THEN CacheGet(cache', <<gens'[n].uri, MathRound(gens'[n].d)>>) = thumbnails'
                   ELSE /\ cache' = cache
                        /\ ~HasKey(cache', <<gens'[n].uri, MathRound(gens'[n].d)>>) ]_vars

\* a run with one failed and two successful extractions completed and its
\* sequence, absent slot included, is in the cache
C10_Witness ==
    \E n \in DOMAIN gens :
        /\ gens[n].rank > 0 /\ ~gens[n].aborted
        /\ \E p \in DOMAIN thumbnails : thumbnails[p] = NoUri
        /\ \E p \in DOMAIN thumbnails : thumbnails[p] # NoUri
        /\ thumbnails = OrderedResults(gens[n].results)
        /\ CacheGet(cache, gens[n].key) = thumbnails

----------------------------------------------------------------------------
(* Claims about the playback position *)

\* the timeUpdate listener performs its write in this step
ListenerWrites == listener.pc = "write" /\ listener'.pc = "idle"

\* the engine emits a timeUpdate and the listener tests it in this step
ListenerTests == listener.pc = "idle" /\ rnQueue' = rnQueue /\ gesture' = gesture
                 /\ duration' = duration /\ playerCurrentTime' # playerCurrentTime

\* the seekTo calls waiting in a queue
Seeks(q) == SelectSeq(q, LAMBDA c : c.fn = "seekTo")

\* clamp(x, 0, W) / W, written out
ClampedFraction(x) ==
    IF x <= 0 THEN Zero
    ELSE IF x >= TIMELINE_WIDTH THEN QInt(1)
    ELSE Q(x, TIMELINE_WIDTH)

\* C3: while isDragging is true, the write of the timeUpdate listener never
\* changes progress, however the listener's test and write interleave with
\* the pan and tap worklets
C3_NoListenerWriteWhileDragging ==
    [][ (isDragging /\ ListenerWrites) => progress' = progress ]_vars

\* C6: while isDragging is false and duration > 0, a timeUpdate goes on to
\* the listener's write with the time the engine reported, and the write
\* sets progress to currentTime / duration and displayTime to currentTime
C6_ListenerTracksEngine ==
    [][ /\ (ListenerTests /\ ~isDragging /\ QLt(Zero, duration))
            => listener' = [pc |-> "write", currentTime |-> playerCurrentTime']
        /\ (ListenerWrites /\ ~isDragging /\ QLt(Zero, duration))
            => /\ QMul(progress', duration) = listener.currentTime
               /\ displayTime' = listener.currentTime ]_vars

\* a timeUpdate for 1 s of a 1.5 s video was written while nothing dragged
C6_Witness ==
    /\ duration = Q(3, 2) /\ ~isDragging /\ listener.pc = "idle"
    /\ progress = Q(2, 3) /\ displayTime = QInt(1) /\ playerCurrentTime = QInt(1)

\* C7: a tap released at x sets progress to clamp(x, 0, W) / W and schedules
\* a seek to (clamp(x, 0, W) / W) * duration
C7_TapSeeksToClampedPosition ==
    [][ (gesture.kind = "tapStart" /\ gesture'.kind = "tapEnd")
            => /\ progress' = ClampedFraction(gesture'.x)
               /\ Seeks(rnQueue') =
                    Append(Seeks(rnQueue), SeekTo(QMul(ClampedFraction(gesture'.x), duration))) ]_vars

\* a tap left of the timeline's start was released and its seek to 0 has
\* reached the engine, after the engine had played on to 1 s
C7_Witness ==
    /\ gesture = [kind |-> "tapEnd", x |-> 0 - XMargin]
    /\ QLt(Zero, duration) /\ progress = Zero
    /\ playerCurrentTime = Zero /\ displayTime = QInt(1)
    /\ Len(rnQueue) = 1 /\ rnQueue[1] = UpdateDisplayTime(Zero)

\* C8: a seek is scheduled only by the release of a tap or of a pan; a pan
\* move schedules none and leaves player.currentTime, isDragging and duration
\* as they are
C8_SeekOnlyOnRelease ==
    [][ /\ Len(Seeks(rnQueue')) > Len(Seeks(rnQueue))
            => /\ gesture.kind \in {"tapStart", "panStart", "panUpdate"}
               /\ gesture'.kind \in {"tapEnd", "panEnd"}
        /\ (gesture'.kind = "panUpdate" /\ (gesture' # gesture \/ Len(rnQueue') > Len(rnQueue)))
            => /\ Seeks(rnQueue') = Seeks(rnQueue)
               /\ playerCurrentTime' = playerCurrentTime
               /\ isDragging' = isDragging
               /\ duration' = duration ]_vars

\* in the middle of a drag to the timeline's end: progress is 1 and
\* displayTime the duration, the engine is still at 1 s and no seek waits
C8_Witness ==
    /\ gesture = [kind |-> "panUpdate", x |-> TIMELINE_WIDTH]
    /\ isDragging /\ duration = QInt(2)
    /\ progress = QInt(1) /\ displayTime = duration
    /\ playerCurrentTime = QInt(1) /\ rnQueue = <<>>

\* C9: the release of a pan at x schedules exactly one seek, to
\* (clamp(x, 0, W) / W) * duration, and leaves isDragging false
C9_PanReleaseSeeksOnce ==
    [][ (gesture.kind \in {"panStart", "panUpdate"} /\ gesture'.kind = "panEnd")
            => /\ rnQueue' = Append(rnQueue, SeekTo(QMul(ClampedFraction(gesture'.x), duration)))
               /\ ~isDragging' ]_vars

\* a drag that ended beyond the timeline's end: the seek to the duration has
\* reached the engine and nothing is dragging
C9_Witness ==
    /\ gesture = [kind |-> "panEnd", x |-> TIMELINE_WIDTH + XMargin]
    /\ ~isDragging /\ QLt(Zero, duration)
    /\ progress = QInt(1) /\ displayTime = duration
    /\ playerCurrentTime = duration /\ rnQueue = <<>>

----------------------------------------------------------------------------
(* Claims about cache hits and the admission window *)

\* the generation effect body runs in this step, for a new controller
EffectRuns == Len(gens') = Len(gens) + 1

\* C11: when the effect runs for a videoUri and rounded duration whose
\* sequence is in the cache, that cached sequence becomes the screen's
\* thumbnails, the loading flag is cleared and no extraction call is made
C11_CacheHitSkipsExtraction ==
    [][ (EffectRuns /\ HasKey(cache, <<videoUri', MathRound(duration')>>))
            => /\ thumbnails' = CacheGet(cache, <<videoUri', MathRound(duration')>>)
               /\ ~isLoadingThumbnails'
               /\ gens'[Len(gens')].executing = {}
               /\ gens'[Len(gens')].next = 0
               /\ cache' = cache ]_vars

\* run 1 (duration 1.5 s or 2 s) cached two images and one absent slot; the
\* effect then ran for the other duration, same rounded value, and took the
\* cached sequence without starting a call
C11_Witness ==
    /\ Len(gens) = 2
    /\ gens[1].rank = 1 /\ gens[2].pc = "cached" /\ gens[2].d # gens[1].d
    /\ gens[2].executing = {} /\ gens[2].results = <<>>
    /\ Cardinality({p \in DOMAIN thumbnails : thumbnails[p] = NoUri}) = 1
    /\ thumbnails = CacheGet(cache, gens[2].key)
    /\ ~isLoadingThumbnails

\* C12: at every moment the extraction calls of a run that have started and
\* not completed number at most MAX_CONCURRENT_THUMBNAILS
C12_InFlightAtMostLimit ==
    \A n \in DOMAIN gens : Cardinality(gens[n].executing) <= MAX_CONCURRENT_THUMBNAILS

\* every task has been started, one has completed and the window is full
C12_Witness ==
    \E n \in DOMAIN gens :
        /\ gens[n].next = THUMBNAIL_COUNT
        /\ Len(gens[n].results) >= 1
        /\ Cardinality(gens[n].executing) = MAX_CONCURRENT_THUMBNAILS

----------------------------------------------------------------------------
(* Claims about failing extraction calls and teardown *)

\* the extraction call for sample index i of run g failed (resolved to null)
Failed(g, i) == ThumbUri(g.uri, g.d, i) \notin Range(g.results)

\* C13: when a non-cancelled run completes, every one of its
\* THUMBNAIL_COUNT extraction calls was issued and has its result in the
\* results, the run ends by clearing the loading flag, and the slots absent
\* from the sequence it writes are exactly the slots of the calls that failed
C13_FailureOnlyOwnSlotAbsent ==
    [][ \A n \in DOMAIN gens :
            (Finishes(n) /\ MayWrite(gens'[n], mounted))
                => /\ gens'[n].next = THUMBNAIL_COUNT
                   /\ Len(gens'[n].results) = THUMBNAIL_COUNT
                   /\ ~isLoadingThumbnails'
                   /\ \A i \in Slots :
                        (thumbnails'[i + 1] = NoUri) <=> Failed(gens'[n], i) ]_vars

\* C14: once the screen is unmounted, the run of the current controller is
\* cancelled, and no later step (its extraction calls resolving, generate()
\* running on) changes the thumbnails, the loading flag or the cache
C14_NoWriteAfterUnmount ==
    [][ /\ (~mounted' /\ abortControllerRef' # 0) => gens'[abortControllerRef'].aborted
        /\ ~mounted => /\ thumbnails' = thumbnails
                       /\ isLoadingThumbnails' = isLoadingThumbnails
                       /\ cache' = cache ]_vars

\* the screen was unmounted while the current run was in flight; the run has
\* since run to its end, and the state is still the one from before it
C14_Witness ==
    /\ ~mounted /\ abortControllerRef # 0
    /\ gens[abortControllerRef].aborted
    /\ gens[abortControllerRef].pc = "done"
    /\ isLoadingThumbnails /\ thumbnails = NullThumbnails /\ cache = <<>>

----------------------------------------------------------------------------
(* Claims about the position state as a whole *)

\* C15: in every reachable state progress is within [0, 1] and displayTime is
\* within [0, duration], whatever the pointer coordinates and the order of
\* time updates, duration updates and gesture events
C15_ProgressAndDisplayTimeInRange ==
    /\ QLe(Zero, progress) /\ QLe(progress, QInt(1))
    /\ QLe(Zero, displayTime) /\ QLe(displayTime, duration)

\* the image handles and the absent value a slot can hold
SlotValues ==
    {NoUri} \cup {ThumbUri(videoSource, d, i) : d \in PlayerDurations, i \in Slots}

HasNSlots(seq) ==
    /\ DOMAIN seq = 1..THUMBNAIL_COUNT
    /\ \A p \in DOMAIN seq : seq[p] \in SlotValues

\* C16: the thumbnails in screen state and every sequence in the cache have
\* exactly THUMBNAIL_COUNT slots, each an image handle or absent
C16_SequencesHaveNSlots ==
    /\ HasNSlots(thumbnails)
    /\ \A p \in DOMAIN cache : HasNSlots(cache[p].value)

\* a run in which every call succeeded wrote THUMBNAIL_COUNT images to state
\* and to the cache
C16_Witness ==
    \E n \in DOMAIN gens :
        /\ gens[n].rank > 0 /\ ~gens[n].aborted
        /\ Len(gens[n].results) = THUMBNAIL_COUNT
        /\ \A p \in DOMAIN thumbnails : thumbnails[p] # NoUri
        /\ Len(thumbnails) = THUMBNAIL_COUNT
        /\ CacheGet(cache, gens[n].key) = thumbnails

\* a pan is released in this step
PanReleases == isDragging /\ ~isDragging' /\ gesture'.kind = "panEnd"

\* C18: on pan release the seek to the final computed time has reached the
\* player by the time isDragging is false, and while the seek of a released
\* pan has not reached the player no timeUpdate is accepted by the listener
C18_SeekReachesEngineBeforeDragEnds ==
    [][ /\ PanReleases
            => /\ playerCurrentTime' = QMul(ClampedFraction(gesture'.x), duration)
               /\ Seeks(rnQueue') = <<>>
        /\ (gesture.kind = "panEnd" /\ Seeks(rnQueue) # <<>> /\ ListenerTests)
            => listener'.pc # "write" ]_vars

----------------------------------------------------------------------------
(* Claims about the progress of a generation run *)

RunInFlight(n) == n \in DOMAIN gens /\ gens[n].pc \in {"race", "all"}

RunCancelled(n) == n \in DOMAIN gens /\ (gens[n].aborted \/ ~mounted)

RunCompleted(n) ==
    n \in DOMAIN gens /\ gens[n].pc = "done" /\ gens[n].rank > 0 /\ ~isLoadingThumbnails

\* C19: if every extraction call eventually resolves or fails, a generation
\* run that is started is eventually either cancelled or completed with the
\* loading flag cleared
C19_RunEventuallyCompletes ==
    \A n \in 1..MaxGens : RunInFlight(n) ~> (RunCancelled(n) \/ RunCompleted(n))

\* a run whose every extraction failed has completed: all slots absent, the
\* loading flag cleared, nothing cancelled
C19_Witness ==
    \E n \in DOMAIN gens :
        /\ RunCompleted(n) /\ ~RunCancelled(n)
        /\ gens[n].results = [p \in 1..THUMBNAIL_COUNT |-> NoUri]
        /\ thumbnails = NullThumbnails

\* an extraction call of run n completes in this step
CallCompletes(n) ==
    n \in DOMAIN gens /\ gens[n].executing \ gens'[n].executing # {}

----------------------------------------------------------------------------
(* Claims about gesture starts, repeated sets and the key of the thumbnails *)

\* a gesture's onStart callback runs in this step
GestureStarts == gesture' # gesture /\ gesture'.kind \in {"tapStart", "panStart"}

\* C21: every gesture start, of a tap as of a pan, leaves isDragging true, and
\* between a tap's start and its end no step changes progress
C21_EveryGestureStartSetsDragging ==
    [][ /\ GestureStarts => isDragging'
        /\ (gesture.kind = "tapStart" /\ gesture'.kind = "tapStart")
                => progress' = progress ]_vars

\* C22: a set on a key that is already in the cache leaves the same keys in
\* the cache, whatever its size, and changes the sequence of one key at most
C22_SetOnPresentKeyRemovesNothing ==
    [][ (cacheOp'.op = "set" /\ ~cacheOp'.newKey)
            => /\ Keys(cache') = Keys(cache)
               /\ Cardinality({k \in Keys(cache) :
                                 CacheGet(cache', k) # CacheGet(cache, k)}) <= 1 ]_vars

\* the images extracted for, or cached under, media uri and rounded duration rd
ImagesFor(uri, rd) ==
    {ThumbUri(uri, d, i) : d \in {e \in PlayerDurations \cup RekeyingDurations :
                                      MathRound(e) = rd},
                           i \in Slots}

\* C23: every image in the screen's thumbnails was extracted for, or cached
\* under, the current videoUri and the current rounded duration
C23_ThumbnailsBelongToCurrentKey ==
    \A p \in DOMAIN thumbnails :
        thumbnails[p] # NoUri => thumbnails[p] \in ImagesFor(videoUri, MathRound(duration))

====
